---- MODULE Spec2Model ----
(***************************************************************************)
(* Model of the flight controller and ripple pool of CinematicParrot       *)
(* (src/components/Birds.tsx) and of the height field getHeight            *)
(* (src/components/Scene.tsx).                                             *)
(*                                                                         *)
(* The program computes with IEEE doubles.  The model computes with        *)
(* integers in fixed point:                                                *)
(*   lengths, positions, velocities   1/100 world unit   (centi)           *)
(*   times, deltas, ripple life       1/1000 second      (ms)              *)
(*   ripple scale                     1/1000                               *)
(*   angles                           1/10000 radian                       *)
(*   sines, cosines, shape factors    1/10000                              *)
(* Every division rounds towards minus infinity.                           *)
(***************************************************************************)
EXTENDS Integers, Sequences, FiniteSets, TLC

VARIABLES
    state,           \* state.current            : BirdState
    velocity,        \* velocity.current         : [x, y, z]
    position,        \* position.current         : [x, y, z]
    prevY,           \* prevY.current
    target,          \* target.current           : [x, y, z]
    lastSplashTime,  \* lastSplashTime.current
    rippleData,      \* rippleData.current       : 1..MAX_COUNT -> entry
    clock,           \* clock.getElapsedTime() of the host
    delta,           \* the host's frame delta of this run
    ticks,           \* number of calls made so far
    skimDraws,       \* number of Math.random() > 0.85 draws that succeeded
    splashTimes,     \* history: clock times of the DIVE_LAKE spawnRipple calls
    visits,          \* history: how often each state has been entered
    frame,           \* history: the locals of the last call
    cameraMode,      \* App: cameraMode         : "FREE" or "FOLLOW"
    resetKey,        \* App: resetKey, the key of the Birds element
    probe,           \* history: the last getHeight call made on its own
    aging            \* one pool entry aged in the arithmetic of the build

vars == << state, velocity, position, prevY, target, lastSplashTime,
           rippleData, clock, delta, ticks, skimDraws, splashTimes,
           visits, frame, cameraMode, resetKey, probe, aging >>

----------------------------------------------------------------------------
(* Bounds of the model *)

\* flight time simulated in one run (ms): the sum of the clamped deltas
MaxFlightTime == 42000
\* successful random skim draws in one run
MaxSkimDraws == 1
\* pool calls in one run of the pool harness
MaxPoolOps == 7

\* host frame deltas (ms) of the runs of the flight: a frame below the clamp
\* and a frame of exactly the clamp
Deltas == {60, 100}

----------------------------------------------------------------------------
(* Fixed-point arithmetic *)

Abs(a) == IF a < 0 THEN -a ELSE a

Min(a, b) == IF a < b THEN a ELSE b

Max(a, b) == IF a > b THEN a ELSE b

RECURSIVE SqrtIter(_, _)
SqrtIter(n, g) ==
    LET h == (g + n \div g) \div 2
    IN  IF h >= g THEN g ELSE SqrtIter(n, h)

\* Math.sqrt on non-negative integers: the largest r with r*r <= n
ISqrt(n) == IF n < 2 THEN n ELSE SqrtIter(n, 46341)

\* Vector2.distanceTo / Math.sqrt(dx*dx + dz*dz), in centi, to 0.04 units
Len2(a, b) == ISqrt((a \div 4) * (a \div 4) + (b \div 4) * (b \div 4)) * 4

\* Vector3.length / Vector3.distanceTo, in centi, to 0.04 units
Len3(a, b, c) ==
    ISqrt((a \div 4) * (a \div 4) + (b \div 4) * (b \div 4)
          + (c \div 4) * (c \div 4)) * 4

Vec(a, b, c) == [x |-> a, y |-> b, z |-> c]

DistanceTo(p, q) == Len3(p.x - q.x, p.y - q.y, p.z - q.z)

\* JavaScript numbers are IEEE 754 doubles. A double d with |d| <= 2 that is a
\* multiple of 2^-58 is held as neg, hi, lo with |d| = (hi * 2^30 + lo) * 2^-58
Limb == 2^30

Double(neg, hi, lo) == [neg |-> neg, hi |-> hi, lo |-> lo]

DoubleZero == Double(FALSE, 0, 0)

\* |a| < |b|
MagLess(a, b) == a.hi < b.hi \/ (a.hi = b.hi /\ a.lo < b.lo)

\* |a| - |b| for |a| >= |b|, exact
MagSub(a, b) ==
    IF a.lo >= b.lo
    THEN [hi |-> a.hi - b.hi, lo |-> a.lo - b.lo]
    ELSE [hi |-> a.hi - b.hi - 1, lo |-> (a.lo - b.lo) + Limb]

\* the number of low bits a magnitude has beyond the 53 of a significand
ExcessBits(hi) ==
    CHOOSE d \in 0..7 : hi < 2^(23 + d) /\ (d = 0 \/ hi >= 2^(22 + d))

\* round to nearest, ties to even, to 53 significant bits
RoundToDouble(m) ==
    LET d == ExcessBits(m.hi)
        q == 2^d
        r == m.lo % q
        base == m.lo - r
        up == 2 * r > q \/ (2 * r = q /\ (base \div q) % 2 = 1)
        lo2 == IF up THEN base + q ELSE base
    IN  IF d = 0 THEN m
        ELSE IF lo2 = Limb THEN [hi |-> m.hi + 1, lo |-> 0]
        ELSE [hi |-> m.hi, lo |-> lo2]

\* a - b of two doubles a >= 0 and b >= 0 as the real numbers give it
ExactSub(a, b) ==
    IF MagLess(a, b)
    THEN LET m == MagSub(b, a) IN Double(TRUE, m.hi, m.lo)
    ELSE LET m == MagSub(a, b) IN Double(FALSE, m.hi, m.lo)

\* a - b of two doubles a >= 0 and b >= 0 as the machine gives it
DoubleSub(a, b) ==
    LET e == ExactSub(a, b)
        m == RoundToDouble(e)
    IN  Double(e.neg, m.hi, m.lo)

\* d <= 0
NotPositive(d) == d.neg \/ (d.hi = 0 /\ d.lo = 0)

\* Vector3.lengthSq, in centi squared
LengthSq(v) == v.x * v.x + v.y * v.y + v.z * v.z

\* Vector3.normalize, to length 10000; a zero vector stays zero
Normalize(v) ==
    LET n == ISqrt(LengthSq(v))
    IN  IF n = 0 THEN v
        ELSE Vec((v.x * 10000) \div n, (v.y * 10000) \div n, (v.z * 10000) \div n)

\* Vector3.crossVectors(a, b)
Cross(a, b) ==
    Vec(a.y * b.z - a.z * b.y, a.z * b.x - a.x * b.z, a.x * b.y - a.y * b.x)

\* sin(i * 0.0256) * 10000 for i = 0..62, a quarter wave
SinTable ==
  << 0, 256, 512, 767, 1022, 1277, 1530, 1782, 2034,
     2284, 2532, 2779, 3024, 3267, 3508, 3746, 3982, 4216,
     4447, 4674, 4899, 5121, 5339, 5554, 5765, 5972, 6175,
     6375, 6570, 6761, 6947, 7129, 7306, 7478, 7646, 7808,
     7966, 8118, 8265, 8406, 8542, 8672, 8797, 8916, 9029,
     9136, 9237, 9332, 9421, 9504, 9580, 9650, 9714, 9772,
     9823, 9868, 9906, 9938, 9963, 9982, 9994, 10000, 9999 >>

\* sine on the first quarter, linear interpolation in the table
QuarterSin(m) ==
    LET i == m \div 256
        r == m % 256
    IN  SinTable[i + 1] + ((SinTable[i + 2] - SinTable[i + 1]) * r) \div 256

\* Math.sin, angle in 1/10000 rad, result in 1/10000
Sin(a) ==
    LET m == a % 62832
    IN  IF m <= 15708 THEN QuarterSin(m)
        ELSE IF m <= 31416 THEN QuarterSin(31416 - m)
        ELSE IF m <= 47124 THEN -QuarterSin(m - 31416)
        ELSE -QuarterSin(62832 - m)

\* Math.cos
Cos(a) == Sin(a + 15708)

----------------------------------------------------------------------------
(* Height field: src/components/Scene.tsx *)

\* the body of pseudoNoise on the four angles it takes sines and cosines of
NoiseOf(ax1, az1, ax2, az2) ==
    (Sin(ax1) * Cos(az1)) \div 10000
    + ((Sin(ax2) * Cos(az2)) \div 10000) \div 2

\* pseudoNoise(x, z), x and z in centi, result in 1/10000
pseudoNoise(x, z) ==
    NoiseOf(x * 5, z * 5, x * 15 + 1000000, z * 15 + 1000000)

\* pseudoNoise(x * 0.15, z * 0.15)
pseudoNoiseRough(x, z) ==
    NoiseOf((x * 75) \div 100, (z * 75) \div 100,
            (x * 225) \div 100 + 1000000, (z * 225) \div 100 + 1000000)

\* mutant: the base offset of an earlier version, +4 instead of +12
BaseHeightLow(x, z) ==
    (pseudoNoise(x, z) * 6) \div 100 + 400
    + ((Sin(x * 50) * Cos(z * 50)) \div 10000) \div 100

\* base rolling hills and finer detail
BaseHeight(x, z) ==
    (pseudoNoise(x, z) * 6) \div 100 + 1200
    + ((Sin(x * 50) * Cos(z * 50)) \div 10000) \div 100

mountainCenterX == 25000
mountainCenterZ == -12000
mountainRadius == 16000
mountainHeight == 140

\* mutant: the warped distance is taken from the world origin, the mountain
\* centre is not subtracted
MountainDistFromOrigin(x, z) ==
    LET warpX == (Sin(x * 4) * 4) \div 10 + (Cos((z * 28) \div 10) * 2) \div 10
        warpZ == (Cos((z * 32) \div 10) * 4) \div 10 + (Sin(x * 2) * 2) \div 10
    IN  Len2(x - warpX, z - warpZ)

\* distFromMountain after domain warping
MountainDist(x, z) ==
    LET warpX == (Sin(x * 4) * 4) \div 10 + (Cos((z * 28) \div 10) * 2) \div 10
        warpZ == (Cos((z * 32) \div 10) * 4) \div 10 + (Sin(x * 2) * 2) \div 10
        dx == (x - warpX) - mountainCenterX
        dz == (z - warpZ) - mountainCenterZ
    IN  Len2(dx, dz)

\* shape = 0.5 + 0.5 * cos(normalizedDist * PI), in 1/10000
MountainShape(d) == (10000 + Cos((d * 31416) \div mountainRadius)) \div 2

\* mutant: the roughness is not modulated by the bell shape
MountainRoughnessUnmodulated(x, z, shape) ==
    (pseudoNoiseRough(x, z) * 15
     + Abs((Sin(x * 5) * Cos(z * 5)) \div 10000) * 20) \div 100

\* roughness, in centi
MountainRoughness(x, z, shape) ==
    (((pseudoNoiseRough(x, z) * 15
       + Abs((Sin(x * 5) * Cos(z * 5)) \div 10000) * 20) \div 100) * shape)
    \div 10000

\* mountainY + roughness, 0 outside the warped radius
MountainTerm(x, z) ==
    LET d == MountainDist(x, z)
    IN  IF d < mountainRadius
        THEN LET shape == MountainShape(d)
             IN  (shape * mountainHeight) \div 100 + MountainRoughness(x, z, shape)
        ELSE 0

lakeCenterX == -20000
lakeCenterZ == 8000
lakeRadiusX == 20000
lakeRadiusZ == 14000
lakeDepth == 45

\* dist of the lake's elliptical distance field, in 1/10000; a point with
\* |lx| >= lakeRadiusX or |lz| >= lakeRadiusZ has dist >= 1 and is reported
\* as the larger of the two normalized axis distances
LakeDist(x, z) ==
    LET distortionX == (Sin(z * 10) * 15) \div 100
        distortionZ == (Cos(x * 10) * 15) \div 100
        lx == (x - lakeCenterX) + distortionX
        lz == (z - lakeCenterZ) + distortionZ
        u == (lx * 10000) \div lakeRadiusX
        v == (lz * 10000) \div lakeRadiusZ
    IN  IF Abs(lx) >= lakeRadiusX \/ Abs(lz) >= lakeRadiusZ
        THEN Max(Abs(lx) \div 2, (Abs(lz) * 5) \div 7)
        ELSE ISqrt(u * u + v * v)

\* mutant: the crater function is inverted, 0 at the centre and 1 at the edge
LakeTermInverted(x, z) ==
    LET dist == LakeDist(x, z)
    IN  IF dist < 10000 THEN (((dist * dist) \div 10000) * lakeDepth) \div 100 ELSE 0

\* mutant: the crater is carved without the test dist < 1.0
LakeTermUnguarded(x, z) ==
    LET q == (10000 - LakeDist(x, z)) \div 100
    IN  ((q * q) * lakeDepth) \div 100

\* depthFactor * 45, 0 outside the lake
LakeTerm(x, z) ==
    LET dist == LakeDist(x, z)
        q == 10000 - dist
    IN  IF dist < 10000 THEN (((q * q) \div 10000) * lakeDepth) \div 100 ELSE 0

heightFloor == -1200

\* mutant: the final clamp is missing
getHeightUnclamped(x, z) == BaseHeight(x, z) + MountainTerm(x, z) - LakeTerm(x, z)

getHeight(x, z) ==
    LET y == BaseHeight(x, z) + MountainTerm(x, z) - LakeTerm(x, z)
    IN  IF y < heightFloor THEN heightFloor ELSE y

----------------------------------------------------------------------------
(* Ripple pool: src/components/Birds.tsx *)

MAX_COUNT == 5
WAVES_PER_SPLASH == 1
ENTRY_SCALE == 1200
SKIM_SCALE == 400
EXPANSION_SPEED == 25
LIFE_DURATION == 2000
FADE_SPEED == 1
\* y of p.pos.set(x, -1.9, z)
rippleY == -190

\* the pool as the useMemo loop builds it
NewPool ==
    [i \in 1..MAX_COUNT |->
        [pos |-> Vec(0, 0, 0), scale |-> 0, life |-> 0, maxLife |-> 0,
         active |-> FALSE]]

ActiveCount(rd) == Cardinality({i \in DOMAIN rd : rd[i].active})

\* mutant: an exhausted pool hands out its first entry again
FindInactiveOrFirst(rd) ==
    IF \E i \in DOMAIN rd : ~rd[i].active
    THEN CHOOSE i \in DOMAIN rd :
             ~rd[i].active /\ \A j \in DOMAIN rd : ~rd[j].active => i <= j
    ELSE 1

\* mutant: the last inactive entry instead of the first
FindInactiveLast(rd) ==
    IF \E i \in DOMAIN rd : ~rd[i].active
    THEN CHOOSE i \in DOMAIN rd :
             ~rd[i].active /\ \A j \in DOMAIN rd : ~rd[j].active => i >= j
    ELSE 0

\* rippleData.current.find(d => !d.active): index of the entry, 0 for undefined
FindInactive(rd) ==
    IF \E i \in DOMAIN rd : ~rd[i].active
    THEN CHOOSE i \in DOMAIN rd :
             ~rd[i].active /\ \A j \in DOMAIN rd : ~rd[j].active => i <= j
    ELSE 0

\* mutant: the wave takes the initial scale as it is
SpawnedEntryUnscaled(x, z, initialScale, i) ==
    [pos |-> Vec(x, rippleY, z),
     scale |-> initialScale,
     maxLife |-> LIFE_DURATION + i * 500,
     life |-> LIFE_DURATION + i * 500,
     active |-> TRUE]

\* the assignments of one wave to the entry found
SpawnedEntry(x, z, initialScale, i) ==
    [pos |-> Vec(x, rippleY, z),
     scale |-> (initialScale * (800 + i * 200)) \div 1000,
     maxLife |-> LIFE_DURATION + i * 500,
     life |-> LIFE_DURATION + i * 500,
     active |-> TRUE]

\* mutant: an exhausted pool grows by a new entry
RECURSIVE SpawnWavesPush(_, _, _, _, _)
SpawnWavesPush(rd, x, z, initialScale, i) ==
    IF i >= WAVES_PER_SPLASH THEN rd
    ELSE LET p == FindInactive(rd)
             rd2 == IF p # 0
                    THEN [rd EXCEPT ![p] = SpawnedEntry(x, z, initialScale, i)]
                    ELSE Append(rd, SpawnedEntry(x, z, initialScale, i))
         IN  SpawnWavesPush(rd2, x, z, initialScale, i + 1)

RECURSIVE SpawnWaves(_, _, _, _, _)
SpawnWaves(rd, x, z, initialScale, i) ==
    IF i >= WAVES_PER_SPLASH THEN rd
    ELSE LET p == FindInactive(rd)
             rd2 == IF p # 0
                    THEN [rd EXCEPT ![p] = SpawnedEntry(x, z, initialScale, i)]
                    ELSE rd
         IN  SpawnWaves(rd2, x, z, initialScale, i + 1)

spawnRipple(rd, x, z, initialScale) == SpawnWaves(rd, x, z, initialScale, 0)

\* mutant: a retired entry keeps the scale it had grown to
AgedEntryKeepingScale(p, dt) ==
    IF p.active
    THEN LET life == p.life - dt * FADE_SPEED
             scale == p.scale + dt * EXPANSION_SPEED
         IN  IF life <= 0
             THEN [p EXCEPT !.life = life, !.scale = scale, !.active = FALSE]
             ELSE [p EXCEPT !.life = life, !.scale = scale]
    ELSE p

\* mutant: an entry is retired only once its life is below zero
AgedEntryStrict(p, dt) ==
    IF p.active
    THEN LET life == p.life - dt * FADE_SPEED
             scale == p.scale + dt * EXPANSION_SPEED
         IN  IF life < 0
             THEN [p EXCEPT !.life = life, !.scale = 0, !.active = FALSE]
             ELSE [p EXCEPT !.life = life, !.scale = scale]
    ELSE p

\* mutant: the fade has the wrong sign
AgedEntryGrowing(p, dt) ==
    IF p.active
    THEN LET life == p.life + dt * FADE_SPEED
             scale == p.scale + dt * EXPANSION_SPEED
         IN  IF life <= 0
             THEN [p EXCEPT !.life = life, !.scale = 0, !.active = FALSE]
             ELSE [p EXCEPT !.life = life, !.scale = scale]
    ELSE p

\* one entry of the "Update Ripples" loop
AgedEntry(p, dt) ==
    IF p.active
    THEN LET life == p.life - dt * FADE_SPEED
             scale == p.scale + dt * EXPANSION_SPEED
         IN  IF life <= 0
             THEN [p EXCEPT !.life = life, !.scale = 0, !.active = FALSE]
             ELSE [p EXCEPT !.life = life, !.scale = scale]
    ELSE p

\* mutant: an entry spawned in this call, still at its full life, waits for
\* the next call to be aged
UpdateRipplesSkippingFresh(rd, dt) ==
    [i \in DOMAIN rd |->
        IF rd[i].active /\ rd[i].life = rd[i].maxLife
        THEN rd[i]
        ELSE AgedEntry(rd[i], dt)]

UpdateRipples(rd, dt) == [i \in DOMAIN rd |-> AgedEntry(rd[i], dt)]

\* RIPPLE_CONFIG.BASE_OPACITY, 0.1 in 1/1000
BASE_OPACITY == 100

\* setColorAt is not called for the entry in this update
NoColor == -1

\* mutant: the life ratio is used as the brightness, BASE_OPACITY is dropped
BrightnessUnscaled(p) == Max(0, (p.life * 10000) \div p.maxLife) * 1000

\* brightness of an aged entry, in 1/10000000
Brightness(p) == Max(0, (p.life * 10000) \div p.maxLife) * BASE_OPACITY

\* the brightness passed to setColorAt for each entry the update keeps active
SetColors(rd, dt) ==
    [i \in DOMAIN rd |->
        IF rd[i].active /\ AgedEntry(rd[i], dt).active
        THEN Brightness(AgedEntry(rd[i], dt))
        ELSE NoColor]

\* history: the number of spawnRipple calls made in a row, with no ripple
\* update in between, since a call that found the pool empty
BurstAfterSpawn(rd, burst) ==
    IF ActiveCount(rd) = 0 THEN 1
    ELSE IF burst > 0 THEN burst + 1
    ELSE 0

\* a spawnRipple call as the history records it: slot is the entry it
\* activated, 0 when the request was dropped
SpawnCall(site, rd, x, z, initialScale) ==
    [site |-> site, x |-> x, z |-> z, initialScale |-> initialScale,
     slot |-> FindInactive(rd)]

----------------------------------------------------------------------------
(* Flight controller constants: src/components/Birds.tsx *)

BirdStates == {"CINEMATIC_ENTRY", "APPROACH_LAKE", "DIVE_LAKE", "SKIM",
               "CLIMB_MOUNTAIN", "DIVE_BOMB", "PULL_UP"}

LAKE_CENTER == Vec(-20000, -200, 8000)
MOUNTAIN_FIRE_CENTER == Vec(18000, 9000, -6000)
skimStart == Vec(LAKE_CENTER.x + 2000, -200, LAKE_CENTER.z - 1000)
skimEnd == Vec(LAKE_CENTER.x + 7500, -200, LAKE_CENTER.z - 3000)
waterLevel == -200
\* Math.min(delta, 0.1)
MaxDt == 100
\* time - lastSplashTime.current > 2.0
SplashCooldown == 2000

\* the direction a new group faces: +z
DefaultFacing == Vec(0, 0, 1)

NoFrame ==
    [op |-> "init", dt |-> 0, time |-> 0, currentState |-> "CINEMATIC_ENTRY",
     desiredSpeed |-> 0, turnSpeed |-> 0, terrainHeight |-> 0,
     safeAltitude |-> 0, yIntegrated |-> 0, spawns |-> << >>,
     burst |-> 0, poolBefore |-> NewPool, poolAtUpdate |-> NewPool,
     startPos |-> Vec(0, 0, 0), startVel |-> Vec(0, 0, 0),
     steered |-> Vec(0, 0, 0), integrated |-> Vec(0, 0, 0), draw |-> FALSE,
     lastSplashBefore |-> 0,
     colors |-> [i \in 1..MAX_COUNT |-> NoColor],
     facingBefore |-> DefaultFacing, facing |-> DefaultFacing,
     bankAngle |-> 0]

\* no getHeight call made yet
NoProbe == [op |-> "none", x |-> 0, z |-> 0, y |-> 0]

\* no entry under the double-precision ripple update
NoAging ==
    [op |-> "none", dt |-> DoubleZero, n |-> 0,
     life |-> DoubleZero, active |-> FALSE, retiredAt |-> 0,
     exactLife |-> DoubleZero, exactActive |-> FALSE, exactRetiredAt |-> 0]

InitVisits == [s \in BirdStates |-> IF s = "CINEMATIC_ENTRY" THEN 1 ELSE 0]

----------------------------------------------------------------------------
(* One call of the useFrame callback: src/components/Birds.tsx 85-265 *)

\* currentVel.lengthSq() > 0.1
FastEnoughToBank(v) == LengthSq(v) > 1000

\* mutant: lookAt is guarded by the speed test of the bank computation and
\* the group keeps the direction it faced
LookAtGuarded(before, v) == IF FastEnoughToBank(v) THEN v ELSE before

\* the direction the group faces after lookAt(position + v), whatever it
\* faced before: along v, and for a zero v the +z that Matrix4.lookAt puts
\* in the place of a zero direction
LookAt(before, v) == IF v = Vec(0, 0, 0) THEN DefaultFacing ELSE v

\* bankAngle, in 1/10000 rad
BankAngle(v) ==
    LET up == Vec(0, 1, 0)
        right == IF FastEnoughToBank(v)
                 THEN Normalize(Cross(Normalize(v), up))
                 ELSE Vec(10000, 0, 0)
    IN  (-right.y * 15) \div 10

\* mutant: the host delta is used as it comes
ClampDtNone(d) == d

\* const dt = Math.min(delta, 0.1)
ClampDt(d) == Min(d, MaxDt)

\* distToEntry of the position p
DistToEntry(p) == Len2(p.x - skimStart.x, p.z - skimStart.z)

\* mutant: the cooldown test only asks that the last splash is not in the future
CooldownOverAlways(time, last) == time - last >= 0

\* time - lastSplashTime.current > 2.0
CooldownOver(time, last) == time - last > SplashCooldown

\* mutant: the RIPPLE TRIGGER block does not ask for DIVE_LAKE
RippleTriggerAnyState(cs, p, time, last) ==
    /\ DistToEntry(p) < 2500
    /\ p.y < -150
    /\ CooldownOver(time, last)

\* mutant: the RIPPLE TRIGGER block without its distance gate
RippleTriggerAnywhere(cs, p, time, last) ==
    /\ cs = "DIVE_LAKE"
    /\ p.y < -150
    /\ CooldownOver(time, last)

\* the condition of the RIPPLE TRIGGER block
RippleTrigger(cs, p, time, last) ==
    /\ cs = "DIVE_LAKE"
    /\ DistToEntry(p) < 2500
    /\ p.y < -150
    /\ CooldownOver(time, last)

\* target.current as the branch of the state cs sets it
StateTarget(cs, time) ==
    CASE cs = "CINEMATIC_ENTRY" ->
            Vec(MOUNTAIN_FIRE_CENTER.x, 14000, MOUNTAIN_FIRE_CENTER.z)
      [] cs = "APPROACH_LAKE" -> Vec(skimStart.x, 6000, skimStart.z)
      [] cs = "DIVE_LAKE" -> Vec(skimStart.x, -300, skimStart.z)
      [] cs = "SKIM" ->
            Vec(skimEnd.x, -120 + (Sin(time * 150) * 6) \div 1000, skimEnd.z)
      [] cs = "CLIMB_MOUNTAIN" ->
            Vec(MOUNTAIN_FIRE_CENTER.x - 10000, 20000,
                MOUNTAIN_FIRE_CENTER.z + 5000)
      [] cs = "DIVE_BOMB" ->
            Vec(MOUNTAIN_FIRE_CENTER.x, 8000, MOUNTAIN_FIRE_CENTER.z)
      [] cs = "PULL_UP" ->
            Vec(MOUNTAIN_FIRE_CENTER.x, 25000, MOUNTAIN_FIRE_CENTER.z - 10000)

\* desiredSpeed after the branch of the state cs, in centi per second
DesiredSpeed(cs) ==
    CASE cs = "CINEMATIC_ENTRY" -> 10000
      [] cs = "APPROACH_LAKE" -> 4000
      [] cs = "DIVE_LAKE" -> 9000
      [] cs = "SKIM" -> 7000
      [] cs = "CLIMB_MOUNTAIN" -> 6000
      [] cs = "DIVE_BOMB" -> 9000
      [] cs = "PULL_UP" -> 6000

\* turnSpeed after the branch of the state cs
TurnSpeed(cs) == IF cs = "DIVE_LAKE" THEN 3 ELSE 2

\* mutant: SKIM measures the distance to its target in space, as the other
\* states do
ExitConditionSpatial(cs, p, tgt) ==
    CASE cs = "CINEMATIC_ENTRY" -> DistanceTo(p, tgt) < 8000
      [] cs = "APPROACH_LAKE" -> DistanceTo(p, tgt) < 8000
      [] cs = "DIVE_LAKE" -> p.y <= -150 \/ DistanceTo(p, tgt) < 2000
      [] cs = "SKIM" -> DistanceTo(p, tgt) < 2000
      [] cs = "CLIMB_MOUNTAIN" -> DistanceTo(p, tgt) < 6000
      [] cs = "DIVE_BOMB" -> DistanceTo(p, tgt) < 6000
      [] cs = "PULL_UP" -> p.y > 20000

\* mutant: PULL_UP ends near its target, as CLIMB_MOUNTAIN and DIVE_BOMB do
ExitConditionPullUpNear(cs, p, tgt) ==
    CASE cs = "CINEMATIC_ENTRY" -> DistanceTo(p, tgt) < 8000
      [] cs = "APPROACH_LAKE" -> DistanceTo(p, tgt) < 8000
      [] cs = "DIVE_LAKE" -> p.y <= -150 \/ DistanceTo(p, tgt) < 2000
      [] cs = "SKIM" -> Len2(p.x - tgt.x, p.z - tgt.z) < 2000
      [] cs = "CLIMB_MOUNTAIN" -> DistanceTo(p, tgt) < 6000
      [] cs = "DIVE_BOMB" -> DistanceTo(p, tgt) < 6000
      [] cs = "PULL_UP" -> DistanceTo(p, tgt) < 6000

\* mutant: PULL_UP waits for an altitude above its own target
ExitConditionTooHigh(cs, p, tgt) ==
    CASE cs = "CINEMATIC_ENTRY" -> DistanceTo(p, tgt) < 8000
      [] cs = "APPROACH_LAKE" -> DistanceTo(p, tgt) < 8000
      [] cs = "DIVE_LAKE" -> p.y <= -150 \/ DistanceTo(p, tgt) < 2000
      [] cs = "SKIM" -> Len2(p.x - tgt.x, p.z - tgt.z) < 2000
      [] cs = "CLIMB_MOUNTAIN" -> DistanceTo(p, tgt) < 6000
      [] cs = "DIVE_BOMB" -> DistanceTo(p, tgt) < 6000
      [] cs = "PULL_UP" -> p.y > 30000

\* the exit condition of the branch of the state cs
ExitCondition(cs, p, tgt) ==
    CASE cs = "CINEMATIC_ENTRY" -> DistanceTo(p, tgt) < 8000
      [] cs = "APPROACH_LAKE" -> DistanceTo(p, tgt) < 8000
      [] cs = "DIVE_LAKE" -> p.y <= -150 \/ DistanceTo(p, tgt) < 2000
      [] cs = "SKIM" -> Len2(p.x - tgt.x, p.z - tgt.z) < 2000
      [] cs = "CLIMB_MOUNTAIN" -> DistanceTo(p, tgt) < 6000
      [] cs = "DIVE_BOMB" -> DistanceTo(p, tgt) < 6000
      [] cs = "PULL_UP" -> p.y > 20000

\* mutant: PULL_UP hands over to CINEMATIC_ENTRY, the loop includes the entry
SuccessorReentering(cs) ==
    CASE cs = "CINEMATIC_ENTRY" -> "DIVE_BOMB"
      [] cs = "APPROACH_LAKE" -> "DIVE_LAKE"
      [] cs = "DIVE_LAKE" -> "SKIM"
      [] cs = "SKIM" -> "CLIMB_MOUNTAIN"
      [] cs = "CLIMB_MOUNTAIN" -> "DIVE_BOMB"
      [] cs = "DIVE_BOMB" -> "PULL_UP"
      [] cs = "PULL_UP" -> "CINEMATIC_ENTRY"

\* mutant: PULL_UP hands over to DIVE_LAKE, skipping APPROACH_LAKE
SuccessorSkipping(cs) ==
    CASE cs = "CINEMATIC_ENTRY" -> "DIVE_BOMB"
      [] cs = "APPROACH_LAKE" -> "DIVE_LAKE"
      [] cs = "DIVE_LAKE" -> "SKIM"
      [] cs = "SKIM" -> "CLIMB_MOUNTAIN"
      [] cs = "CLIMB_MOUNTAIN" -> "DIVE_BOMB"
      [] cs = "DIVE_BOMB" -> "PULL_UP"
      [] cs = "PULL_UP" -> "DIVE_LAKE"

\* the state the branch of the state cs assigns when its exit condition holds
Successor(cs) ==
    CASE cs = "CINEMATIC_ENTRY" -> "DIVE_BOMB"
      [] cs = "APPROACH_LAKE" -> "DIVE_LAKE"
      [] cs = "DIVE_LAKE" -> "SKIM"
      [] cs = "SKIM" -> "CLIMB_MOUNTAIN"
      [] cs = "CLIMB_MOUNTAIN" -> "DIVE_BOMB"
      [] cs = "DIVE_BOMB" -> "PULL_UP"
      [] cs = "PULL_UP" -> "APPROACH_LAKE"

\* mutant: the branches test state.current one after the other, so the
\* branch of the state just assigned runs in the same call
NextStateTwice(cs, p, tgt) ==
    IF ExitCondition(cs, p, tgt)
    THEN IF ExitCondition(Successor(cs), p, tgt)
         THEN Successor(Successor(cs))
         ELSE Successor(cs)
    ELSE cs

\* state.current after the STATE MACHINE block
NextState(cs, p, tgt) == IF ExitCondition(cs, p, tgt) THEN Successor(cs) ELSE cs

\* desiredDir.multiplyScalar(desiredSpeed): normalize() leaves a zero vector
\* as it is
DesiredVelocity(p, tgt, desiredSpeed) ==
    LET dx == tgt.x - p.x
        dy == tgt.y - p.y
        dz == tgt.z - p.z
        n == Len3(dx, dy, dz)
    IN  IF n = 0 THEN Vec(0, 0, 0)
        ELSE Vec((dx * desiredSpeed) \div n, (dy * desiredSpeed) \div n,
                 (dz * desiredSpeed) \div n)

\* mutant: the steering step without the speed clamp
SteerUnclamped(v, p, tgt, desiredSpeed, turnSpeed, dt) ==
    LET want == DesiredVelocity(p, tgt, desiredSpeed)
    IN  Vec(v.x + ((want.x - v.x) * turnSpeed * dt) \div 1000,
            v.y + ((want.y - v.y) * turnSpeed * dt) \div 1000,
            v.z + ((want.z - v.z) * turnSpeed * dt) \div 1000)

\* currentVel after the steering step and the speed clamp
Steer(v, p, tgt, desiredSpeed, turnSpeed, dt) ==
    LET want == DesiredVelocity(p, tgt, desiredSpeed)
        v1 == Vec(v.x + ((want.x - v.x) * turnSpeed * dt) \div 1000,
                  v.y + ((want.y - v.y) * turnSpeed * dt) \div 1000,
                  v.z + ((want.z - v.z) * turnSpeed * dt) \div 1000)
        len == Len3(v1.x, v1.y, v1.z)
    IN  IF len > desiredSpeed
        THEN Vec((v1.x * desiredSpeed) \div len, (v1.y * desiredSpeed) \div len,
                 (v1.z * desiredSpeed) \div len)
        ELSE v1

\* currentPos.add(currentVel.clone().multiplyScalar(dt))
Integrate(p, v, dt) ==
    Vec(p.x + (v.x * dt) \div 1000, p.y + (v.y * dt) \div 1000,
        p.z + (v.z * dt) \div 1000)

\* mutant: only SKIM is allowed below the water plane
SafeAltitudeSkimOnly(cs, terrainHeight) ==
    IF terrainHeight < waterLevel
    THEN IF cs = "SKIM"
         THEN waterLevel - 50
         ELSE waterLevel + 200
    ELSE IF cs = "SKIM"
         THEN terrainHeight + 500
         ELSE terrainHeight + 200

\* safeAltitude of the terrain collision block
SafeAltitude(cs, terrainHeight) ==
    IF terrainHeight < waterLevel
    THEN IF cs = "SKIM" \/ cs = "DIVE_LAKE"
         THEN waterLevel - 50
         ELSE waterLevel + 200
    ELSE IF cs = "SKIM"
         THEN terrainHeight + 500
         ELSE terrainHeight + 200

\* mutant: the easing factor is dt * 5
LerpToSafeHalf(y, safeAltitude, dt) == y + ((safeAltitude - y) * dt * 5) \div 1000

\* THREE.MathUtils.lerp(y, safeAltitude, dt * 10)
LerpToSafe(y, safeAltitude, dt) == y + ((safeAltitude - y) * dt * 10) \div 1000

\* currentPos.y after the terrain collision block
AvoidY(y, safeAltitude, dt) ==
    IF y < safeAltitude THEN LerpToSafe(y, safeAltitude, dt) ELSE y

\* mutant: the damping does not look at the sign of the vertical velocity
AvoidVyAnySign(y, vy, safeAltitude) ==
    IF y < safeAltitude THEN vy \div 2 ELSE vy

\* currentVel.y after the terrain collision block
AvoidVy(y, vy, safeAltitude) ==
    IF y < safeAltitude /\ vy < 0 THEN vy \div 2 ELSE vy

\* mutant: the stamp is the time from which the next splash is allowed
LastSplashAfterBranchAhead(exit, skim, time, last) ==
    IF exit THEN time + SplashCooldown ELSE last

\* mutant: the SKIM splash stamps lastSplashTime.current as well
LastSplashAfterAnySplash(exit, skim, time, last) ==
    IF exit \/ skim THEN time ELSE last

\* lastSplashTime.current after the state machine: the DIVE_LAKE branch
\* assigns it with its splash, the SKIM branch does not
LastSplashAfterBranch(exit, skim, time, last) == IF exit THEN time ELSE last

\* mutant: the splash sites read the position the integration and the
\* avoidance of the same call produce
SplashPosAfter(start, moved) == moved

\* currentPos as the splash sites read it: they run before currentPos.add,
\* so it still holds the position the call started with
SplashPos(start, moved) == start

\* mutant: the RIPPLE TRIGGER block leaves lastSplashTime.current alone
LastSplashAfterTriggerKept(pre, time, last) == last

\* lastSplashTime.current after the RIPPLE TRIGGER block
LastSplashAfterTrigger(pre, time, last) == IF pre THEN time ELSE last

\* the three spawnRipple call sites of the callback on the position
\* currentPos: the RIPPLE TRIGGER block, which the callback evaluates first,
\* then the calls inside the DIVE_LAKE and SKIM branches; the result holds
\* lastSplashTime.current and the pool after them, and the calls made
SplashSites(currentState, newState, currentPos, time, last, rd, draw) ==
    LET \* RIPPLE TRIGGER
        pre == RippleTrigger(currentState, currentPos, time, last)
        last1 == LastSplashAfterTrigger(pre, time, last)
        call1 == IF pre
                 THEN << SpawnCall("trigger", rd, currentPos.x, currentPos.z,
                                   ENTRY_SCALE) >>
                 ELSE << >>
        rd1 == IF pre
               THEN spawnRipple(rd, currentPos.x, currentPos.z, ENTRY_SCALE)
               ELSE rd
        \* the spawnRipple calls inside the DIVE_LAKE and SKIM branches
        exit == /\ currentState = "DIVE_LAKE"
                /\ newState # currentState
                /\ CooldownOver(time, last1)
        skim == currentState = "SKIM" /\ draw
        call2 == IF exit
                 THEN << SpawnCall("exit", rd1, currentPos.x, currentPos.z,
                                   ENTRY_SCALE) >>
                 ELSE IF skim
                 THEN << SpawnCall("skim", rd1, currentPos.x, currentPos.z,
                                   SKIM_SCALE) >>
                 ELSE << >>
        rd2 == IF exit
               THEN spawnRipple(rd1, currentPos.x, currentPos.z, ENTRY_SCALE)
               ELSE IF skim
               THEN spawnRipple(rd1, currentPos.x, currentPos.z, SKIM_SCALE)
               ELSE rd1
    IN  [last |-> LastSplashAfterBranch(exit, skim, time, last1),
         spawns |-> call1 \o call2, pool |-> rd2,
         entries |-> (IF pre THEN 1 ELSE 0) + (IF exit THEN 1 ELSE 0),
         skim |-> skim]

\* mutant: a skim splash brakes the actor, its velocity is halved
UseFrameSplashBrakes(draw) ==
    LET dt == ClampDt(delta)
        time == clock + delta
        startPos == position
        currentState == state
        \* STATE MACHINE: target, speeds and the exit test of the branch
        tgt == StateTarget(currentState, time)
        desiredSpeed == DesiredSpeed(currentState)
        turnSpeed == TurnSpeed(currentState)
        newState == NextState(currentState, startPos, tgt)
        \* steering and integration
        vel == Steer(velocity, startPos, tgt, desiredSpeed, turnSpeed, dt)
        pos == Integrate(startPos, vel, dt)
        \* Terrain collision
        terrainHeight == getHeight(pos.x, pos.z)
        safeAltitude == SafeAltitude(currentState, terrainHeight)
        y == AvoidY(pos.y, safeAltitude, dt)
        vy == AvoidVy(pos.y, vel.y, safeAltitude)
        \* the splash sites run before the steering; nothing above reads
        \* their results, so they are written here, next to the pool
        splash == SplashSites(currentState, newState,
                              SplashPos(startPos, [pos EXCEPT !.y = y]),
                              time, lastSplashTime, rippleData, draw)
    IN  /\ state' = newState
        /\ target' = tgt
        /\ lastSplashTime' = splash.last
        /\ velocity' = IF splash.skim
                       THEN Vec(vel.x \div 2, vy \div 2, vel.z \div 2)
                       ELSE [vel EXCEPT !.y = vy]
        /\ position' = [pos EXCEPT !.y = y]
        /\ prevY' = y
        /\ rippleData' = UpdateRipples(splash.pool, dt)
        /\ clock' = time
        /\ skimDraws' = IF splash.skim THEN skimDraws + 1 ELSE skimDraws
        /\ splashTimes' = IF splash.entries = 2
                          THEN splashTimes \o << time, time >>
                          ELSE IF splash.entries = 1
                          THEN Append(splashTimes, time)
                          ELSE splashTimes
        /\ visits' = IF newState # currentState
                     THEN [visits EXCEPT ![newState] = @ + 1]
                     ELSE visits
        /\ frame' = [op |-> "useFrame", dt |-> dt, time |-> time,
                     currentState |-> currentState,
                     desiredSpeed |-> desiredSpeed, turnSpeed |-> turnSpeed,
                     terrainHeight |-> terrainHeight,
                     safeAltitude |-> safeAltitude, yIntegrated |-> pos.y,
                     spawns |-> splash.spawns, burst |-> 0,
                     poolBefore |-> rippleData, poolAtUpdate |-> splash.pool,
                     startPos |-> position, startVel |-> velocity,
                     steered |-> vel, integrated |-> pos, draw |-> draw,
                     lastSplashBefore |-> lastSplashTime,
                     colors |-> SetColors(splash.pool, dt),
                     facingBefore |-> frame.facing,
                     facing |-> LookAt(frame.facing, velocity'),
                     bankAngle |-> BankAngle(velocity')]
        /\ UNCHANGED << delta, cameraMode, resetKey, probe, aging >>

\* the whole callback; draw is the outcome of Math.random() > 0.85, which
\* only the SKIM branch evaluates
UseFrame(draw) ==
    LET dt == ClampDt(delta)
        time == clock + delta
        startPos == position
        currentState == state
        \* STATE MACHINE: target, speeds and the exit test of the branch
        tgt == StateTarget(currentState, time)
        desiredSpeed == DesiredSpeed(currentState)
        turnSpeed == TurnSpeed(currentState)
        newState == NextState(currentState, startPos, tgt)
        \* steering and integration
        vel == Steer(velocity, startPos, tgt, desiredSpeed, turnSpeed, dt)
        pos == Integrate(startPos, vel, dt)
        \* Terrain collision
        terrainHeight == getHeight(pos.x, pos.z)
        safeAltitude == SafeAltitude(currentState, terrainHeight)
        y == AvoidY(pos.y, safeAltitude, dt)
        vy == AvoidVy(pos.y, vel.y, safeAltitude)
        \* the splash sites run before the steering; nothing above reads
        \* their results, so they are written here, next to the pool
        splash == SplashSites(currentState, newState,
                              SplashPos(startPos, [pos EXCEPT !.y = y]),
                              time, lastSplashTime, rippleData, draw)
    IN  /\ state' = newState
        /\ target' = tgt
        /\ lastSplashTime' = splash.last
        /\ velocity' = [vel EXCEPT !.y = vy]
        /\ position' = [pos EXCEPT !.y = y]
        /\ prevY' = y
        /\ rippleData' = UpdateRipples(splash.pool, dt)
        /\ clock' = time
        /\ skimDraws' = IF splash.skim THEN skimDraws + 1 ELSE skimDraws
        /\ splashTimes' = IF splash.entries = 2
                          THEN splashTimes \o << time, time >>
                          ELSE IF splash.entries = 1
                          THEN Append(splashTimes, time)
                          ELSE splashTimes
        /\ visits' = IF newState # currentState
                     THEN [visits EXCEPT ![newState] = @ + 1]
                     ELSE visits
        /\ frame' = [op |-> "useFrame", dt |-> dt, time |-> time,
                     currentState |-> currentState,
                     desiredSpeed |-> desiredSpeed, turnSpeed |-> turnSpeed,
                     terrainHeight |-> terrainHeight,
                     safeAltitude |-> safeAltitude, yIntegrated |-> pos.y,
                     spawns |-> splash.spawns, burst |-> 0,
                     poolBefore |-> rippleData, poolAtUpdate |-> splash.pool,
                     startPos |-> position, startVel |-> velocity,
                     steered |-> vel, integrated |-> pos, draw |-> draw,
                     lastSplashBefore |-> lastSplashTime,
                     colors |-> SetColors(splash.pool, dt),
                     facingBefore |-> frame.facing,
                     facing |-> LookAt(frame.facing, velocity'),
                     bankAngle |-> BankAngle(velocity')]
        /\ UNCHANGED << delta, cameraMode, resetKey, probe, aging >>

\* a frame of the flight: the host calls the callback once per rendered frame
Tick ==
    /\ ticks * ClampDt(delta) < MaxFlightTime
    /\ \E draw \in BOOLEAN :
          /\ draw => (state = "SKIM" /\ skimDraws < MaxSkimDraws)
          /\ UseFrame(draw)
    /\ ticks' = ticks + 1

\* the refs as the component creates them; the host's delta is fixed for a run
Init ==
    /\ state = "CINEMATIC_ENTRY"
    /\ velocity = Vec(0, 0, 0)
    /\ position = Vec(-20000, 10000, 10000)
    /\ prevY = 21000
    /\ target = Vec(0, 0, 0)
    /\ lastSplashTime = 0
    /\ rippleData = NewPool
    /\ clock = 0
    /\ delta \in Deltas
    /\ ticks = 0
    /\ skimDraws = 0
    /\ splashTimes = << >>
    /\ visits = InitVisits
    /\ frame = NoFrame
    /\ cameraMode = "FREE"
    /\ resetKey = 0
    /\ probe = NoProbe
    /\ aging = NoAging

Next == Tick

Spec == Init /\ [][Next]_vars

\* the run has used up its flight time
FlightOver == ticks * ClampDt(delta) >= MaxFlightTime

----------------------------------------------------------------------------
(* The callback on sampled controller states: the refs are drawn from small *)
(* sets that cover both sides of every test the callback makes, and the     *)
(* callback is then called a few times                                      *)

\* useFrame calls in one run on a sampled state
MaxFrameTicks == 2

\* host deltas (ms): a repeated timestamp, a frame of one millisecond, a frame
\* below the clamp, a frame of exactly the clamp, a stalled frame
FrameDeltas == {0, 1, 60, 100, 250}

\* state.clock.elapsedTime (ms) at the sampled moment
FrameClocks == {5000}

\* lastSplashTime.current: no splash yet, a splash exactly the cooldown
\* before the next 0.1 s frame, a splash one second ago
FrameLastSplash == {0, 3100, 4000}

FramePositions ==
    { Vec(-20000, 10000, 10000),   \* the initial position
      Vec(-18000, -200, 7000),     \* at the lake entry point, below -1.5
      Vec(-18000, -150, 7000),     \* at the lake entry point, at -1.5
      Vec(-15000, -200, 6000),     \* 31 from the entry point, below -1.5
      Vec(-18000, 1000, 7000),     \* 13 above the DIVE_LAKE target
      Vec(-17241, 1110, 6533),     \* where the flight at 0.1 s leaves DIVE_LAKE
      Vec(-13000, -150, 5200),     \* 5 from the far shore point
      Vec(-13000, 5000, 5200),     \* the same, 50 higher
      Vec(18000, 21000, -15000),   \* above 200
      Vec(18000, 20000, -15000),   \* at 200
      Vec(16000, 10000, -5000),    \* near the fire centre
      Vec(4000, 17000, 0),         \* near the CLIMB_MOUNTAIN target
      Vec(-15000, 8000, 6000),     \* near the APPROACH_LAKE target
      Vec(0, 0, 0) }               \* below the dry land at the origin

FrameVelocities ==
    { Vec(0, 0, 0), Vec(3000, -5000, 1000), Vec(0, 2000, 0) }

\* a pool with every entry in use: five skim ripples spawned 0.4 s apart,
\* the last one 0.1 s ago
FullPool ==
    [i \in 1..MAX_COUNT |->
        [pos |-> Vec(-15000, rippleY, 6000),
         scale |-> 320 + EXPANSION_SPEED * (400 * i - 300),
         life |-> LIFE_DURATION - (400 * i - 300), maxLife |-> LIFE_DURATION,
         active |-> TRUE]]

\* the pool at the sampled moment: the full pool is sampled in the states
\* whose branches call spawnRipple
FramePools(s) ==
    IF s \in {"DIVE_LAKE", "SKIM"} THEN {NewPool, FullPool} ELSE {NewPool}

FrameInit ==
    /\ state \in BirdStates
    /\ velocity \in FrameVelocities
    /\ position \in FramePositions
    /\ prevY = position.y
    /\ target = Vec(0, 0, 0)
    /\ lastSplashTime \in FrameLastSplash
    /\ rippleData \in FramePools(state)
    /\ clock \in FrameClocks
    /\ delta \in FrameDeltas
    /\ ticks = 0
    /\ skimDraws = 0
    /\ splashTimes = IF lastSplashTime > 0 THEN << lastSplashTime >> ELSE << >>
    /\ visits = [s \in BirdStates |-> IF s = state THEN 1 ELSE 0]
    /\ frame = NoFrame
    /\ cameraMode = "FREE"
    /\ resetKey = 0
    /\ probe = NoProbe
    /\ aging = NoAging

FrameTick ==
    /\ ticks < MaxFrameTicks
    /\ \E draw \in BOOLEAN :
          /\ draw => state = "SKIM"
          /\ UseFrame(draw)
    /\ ticks' = ticks + 1

FrameNext == FrameTick

FrameSpec == FrameInit /\ [][FrameNext]_vars

----------------------------------------------------------------------------
(* Reset: src/App.tsx toggleCameraMode, src/components/Scene.tsx 193 *)

\* toggles of the camera mode that reset, in one run
MaxResets == 2

\* mutant: the ripple pool lives outside the component and survives the
\* remount
RemountKeepingPool ==
    /\ state' = "CINEMATIC_ENTRY"
    /\ velocity' = Vec(0, 0, 0)
    /\ position' = Vec(-20000, 10000, 10000)
    /\ prevY' = 21000
    /\ target' = Vec(0, 0, 0)
    /\ lastSplashTime' = 0
    /\ rippleData' = rippleData
    /\ skimDraws' = 0
    /\ splashTimes' = << >>
    /\ visits' = InitVisits
    /\ frame' = [NoFrame EXCEPT !.op = "remount", !.poolBefore = rippleData]

\* <Birds key={`bird-${resetKey}`}/> with a new key: React unmounts the
\* component and mounts a new one, whose refs and pool are built again; the
\* host's clock is not part of the component
Remount ==
    /\ state' = "CINEMATIC_ENTRY"
    /\ velocity' = Vec(0, 0, 0)
    /\ position' = Vec(-20000, 10000, 10000)
    /\ prevY' = 21000
    /\ target' = Vec(0, 0, 0)
    /\ lastSplashTime' = 0
    /\ rippleData' = NewPool
    /\ skimDraws' = 0
    /\ splashTimes' = << >>
    /\ visits' = InitVisits
    /\ frame' = [NoFrame EXCEPT !.op = "remount", !.poolBefore = rippleData]

\* toggleCameraMode, and the re-render it causes
ToggleCameraMode ==
    IF cameraMode = "FREE"
    THEN /\ cameraMode' = "FOLLOW"
         /\ UNCHANGED << state, velocity, position, prevY, target,
                         lastSplashTime, rippleData, clock, delta, ticks,
                         skimDraws, splashTimes, visits, frame, resetKey,
                         probe, aging >>
    ELSE /\ resetKey < MaxResets
         /\ cameraMode' = "FREE"
         /\ resetKey' = resetKey + 1
         /\ Remount
         /\ UNCHANGED << clock, delta, ticks, probe, aging >>

ResetNext == FrameTick \/ ToggleCameraMode

\* the callback and the camera button, from the sampled controller states
ResetSpec == FrameInit /\ [][ResetNext]_vars

----------------------------------------------------------------------------
(* getHeight on its own: the function called on the points of a grid *)

\* the world is 800 x 800 around the origin: every 10 units across it, the
\* coordinate 500 beyond its edge, and one coordinate far outside it on
\* either side
HeightGrid ==
    { 1000 * i : i \in -40..40 } \cup { -100000, 50000, 100000 }

HeightInit ==
    /\ state = "CINEMATIC_ENTRY"
    /\ velocity = Vec(0, 0, 0)
    /\ position = Vec(-20000, 10000, 10000)
    /\ prevY = 21000
    /\ target = Vec(0, 0, 0)
    /\ lastSplashTime = 0
    /\ rippleData = NewPool
    /\ clock = 0
    /\ delta = MaxDt
    /\ ticks = 0
    /\ skimDraws = 0
    /\ splashTimes = << >>
    /\ visits = InitVisits
    /\ frame = NoFrame
    /\ cameraMode = "FREE"
    /\ resetKey = 0
    /\ \E x \in HeightGrid, z \in HeightGrid :
          probe = [op |-> "pending", x |-> x, z |-> z, y |-> 0]
    /\ aging = NoAging

\* the call getHeight(x, z) on the pending point: it reads its arguments and
\* writes nothing
GetHeightCall ==
    /\ probe.op = "pending"
    /\ probe' = [probe EXCEPT !.op = "getHeight",
                              !.y = getHeight(probe.x, probe.z)]
    /\ UNCHANGED << state, velocity, position, prevY, target, lastSplashTime,
                    rippleData, clock, delta, ticks, skimDraws, splashTimes,
                    visits, frame, cameraMode, resetKey, aging >>

HeightNext == GetHeightCall

HeightSpec == HeightInit /\ [][HeightNext]_vars

----------------------------------------------------------------------------
(* The pool on its own: spawnRipple and the ripple update called in any     *)
(* order on the pool as constructed                                        *)

\* the arguments the program calls spawnRipple with: an entry splash at the
\* lake entry point, a skim splash further along the skim path
PoolSpawnArgs ==
    { << skimStart.x, skimStart.z, ENTRY_SCALE >>,
      << skimEnd.x, skimEnd.z, SKIM_SCALE >> }

PoolDts == {MaxDt}

PoolInit ==
    /\ state = "CINEMATIC_ENTRY"
    /\ velocity = Vec(0, 0, 0)
    /\ position = Vec(-20000, 10000, 10000)
    /\ prevY = 21000
    /\ target = Vec(0, 0, 0)
    /\ lastSplashTime = 0
    /\ rippleData = NewPool
    /\ clock = 0
    /\ delta = MaxDt
    /\ ticks = 0
    /\ skimDraws = 0
    /\ splashTimes = << >>
    /\ visits = InitVisits
    /\ frame = NoFrame
    /\ cameraMode = "FREE"
    /\ resetKey = 0
    /\ probe = NoProbe
    /\ aging = NoAging

PoolSpawn ==
    /\ ticks < MaxPoolOps
    /\ \E a \in PoolSpawnArgs :
          /\ rippleData' = spawnRipple(rippleData, a[1], a[2], a[3])
          /\ frame' = [NoFrame EXCEPT
                         !.op = "spawnRipple",
                         !.spawns = << SpawnCall("call", rippleData,
                                                 a[1], a[2], a[3]) >>,
                         !.burst = BurstAfterSpawn(rippleData, frame.burst),
                         !.poolBefore = rippleData]
    /\ ticks' = ticks + 1
    /\ UNCHANGED << state, velocity, position, prevY, target, lastSplashTime,
                    clock, delta, skimDraws, splashTimes, visits,
                    cameraMode, resetKey, probe, aging >>

PoolUpdate ==
    /\ ticks < MaxPoolOps
    /\ \E dt \in PoolDts :
          /\ rippleData' = UpdateRipples(rippleData, dt)
          /\ frame' = [NoFrame EXCEPT
                         !.op = "updateRipples", !.dt = dt,
                         !.poolBefore = rippleData,
                         !.poolAtUpdate = rippleData,
                         !.colors = SetColors(rippleData, dt)]
    /\ ticks' = ticks + 1
    /\ UNCHANGED << state, velocity, position, prevY, target, lastSplashTime,
                    clock, delta, skimDraws, splashTimes, visits,
                    cameraMode, resetKey, probe, aging >>

PoolNext == PoolSpawn \/ PoolUpdate

PoolSpec == PoolInit /\ [][PoolNext]_vars

----------------------------------------------------------------------------
(* The ripple update on one entry in double precision: Birds.tsx 242-247   *)

\* ticks of one run
MaxAgeSteps == 130

\* constant dt values as doubles: 0.1, 0.06, 0.025, 2/21, 0.016, 0.0625
AgeDts ==
    { Double(FALSE, 26843545, 644245096), Double(FALSE, 16106127, 386547056),
      Double(FALSE, 6710886, 429496730), Double(FALSE, 25565281, 562436192),
      Double(FALSE, 4294967, 317827580), Double(FALSE, 16777216, 0) }

\* RIPPLE_CONFIG.LIFE_DURATION, 2.0
LifeDurationDouble == Double(FALSE, 2^29, 0)

\* mutant: a fade speed of 0.5
FadeDoubleHalf(dt) ==
    Double(FALSE, dt.hi \div 2, (dt.lo + (dt.hi % 2) * Limb) \div 2)

\* dt * RIPPLE_CONFIG.FADE_SPEED: the product with 1.0 is dt itself
FadeDouble(dt) == dt

\* an entry as spawnRipple leaves it, and the same entry aged with exact
\* differences next to it
AgeInit ==
    /\ state = "CINEMATIC_ENTRY"
    /\ velocity = Vec(0, 0, 0)
    /\ position = Vec(-20000, 10000, 10000)
    /\ prevY = 21000
    /\ target = Vec(0, 0, 0)
    /\ lastSplashTime = 0
    /\ rippleData = NewPool
    /\ clock = 0
    /\ delta = MaxDt
    /\ ticks = 0
    /\ skimDraws = 0
    /\ splashTimes = << >>
    /\ visits = InitVisits
    /\ frame = NoFrame
    /\ cameraMode = "FREE"
    /\ resetKey = 0
    /\ probe = NoProbe
    /\ \E dt \in AgeDts :
          aging = [op |-> "spawned", dt |-> dt, n |-> 0,
                   life |-> LifeDurationDouble, active |-> TRUE,
                   retiredAt |-> 0,
                   exactLife |-> LifeDurationDouble, exactActive |-> TRUE,
                   exactRetiredAt |-> 0]

\* one ripple update: if (p.active) { p.life -= dt * FADE_SPEED;
\* if (p.life <= 0) p.active = false }
AgeStep ==
    /\ aging.op # "none"
    /\ aging.active \/ aging.exactActive
    /\ aging.n < MaxAgeSteps
    /\ LET life == IF aging.active
                   THEN DoubleSub(aging.life, FadeDouble(aging.dt))
                   ELSE aging.life
           exactLife == IF aging.exactActive
                        THEN ExactSub(aging.exactLife, aging.dt)
                        ELSE aging.exactLife
           retired == aging.active /\ NotPositive(life)
           exactRetired == aging.exactActive /\ NotPositive(exactLife)
       IN  aging' = [aging EXCEPT
                       !.op = "aged",
                       !.n = @ + 1,
                       !.life = life,
                       !.active = @ /\ ~retired,
                       !.retiredAt = IF retired THEN aging.n + 1 ELSE @,
                       !.exactLife = exactLife,
                       !.exactActive = @ /\ ~exactRetired,
                       !.exactRetiredAt = IF exactRetired THEN aging.n + 1 ELSE @]
    /\ UNCHANGED << state, velocity, position, prevY, target, lastSplashTime,
                    rippleData, clock, delta, ticks, skimDraws, splashTimes,
                    visits, frame, cameraMode, resetKey, probe >>

AgeNext == AgeStep

AgeSpec == AgeInit /\ [][AgeNext]_vars

----------------------------------------------------------------------------
(* Claims about the pool *)

\* the last call was a spawnRipple call on its own
SpawnCalled == frame.op = "spawnRipple"

\* C1: the pool never holds more than MAX_COUNT active entries, and a run of
\* n spawnRipple calls on an empty pool with no ripple update in between
\* leaves min(n, MAX_COUNT) entries active: 6 calls leave exactly 5
C1_PoolCapacity ==
    /\ ActiveCount(rippleData) <= MAX_COUNT
    /\ frame.burst > 0 => ActiveCount(rippleData) = Min(frame.burst, MAX_COUNT)

C1_Witness ==
    /\ frame.burst = MAX_COUNT + 1
    /\ ActiveCount(rippleData) = MAX_COUNT

\* C2: a spawnRipple call on a pool whose entries are all active changes no
\* field of any entry
C2_FullPoolDrops ==
    (SpawnCalled /\ ActiveCount(frame.poolBefore) = MAX_COUNT)
        => rippleData = frame.poolBefore

C2_Witness ==
    /\ SpawnCalled
    /\ ActiveCount(frame.poolBefore) = MAX_COUNT
    /\ frame.spawns[1].slot = 0

\* the entry with the least index among the inactive ones of rd is k
LowestInactive(rd, k) ==
    /\ k \in DOMAIN rd
    /\ ~rd[k].active
    /\ \A j \in DOMAIN rd : j < k => rd[j].active

\* C3: a spawnRipple(x, z, s) call on a pool with an inactive entry changes
\* exactly the lowest-index inactive entry: it becomes active at
\* (x, -1.9, z) with maxLife = 2.0 and life = maxLife
C3_SpawnActivatesFirstInactive ==
    (SpawnCalled /\ ActiveCount(frame.poolBefore) < MAX_COUNT) =>
        LET c == frame.spawns[1]
        IN  /\ LowestInactive(frame.poolBefore, c.slot)
            /\ rippleData[c.slot].active
            /\ rippleData[c.slot].pos = Vec(c.x, -190, c.z)
            /\ rippleData[c.slot].maxLife = 2000
            /\ rippleData[c.slot].life = rippleData[c.slot].maxLife
            /\ \A j \in DOMAIN rippleData :
                   j # c.slot => rippleData[j] = frame.poolBefore[j]
            /\ DOMAIN rippleData = DOMAIN frame.poolBefore

C3_Witness ==
    /\ SpawnCalled
    /\ frame.spawns[1].slot = 3
    /\ rippleData[3].active
    /\ rippleData[1].life < rippleData[1].maxLife

\* C4 as stated: after a successful spawnRipple the activated entry's scale
\* is the initialScale argument
C4_ScaleIsInitialScale ==
    (SpawnCalled /\ frame.spawns[1].slot # 0) =>
        rippleData[frame.spawns[1].slot].scale = frame.spawns[1].initialScale

\* C4 amended: after a successful spawnRipple the activated entry's scale is
\* 0.8 times the initialScale argument: 0.96 for an entry splash, 0.32 for a
\* skim splash
C4_ScaleIsFourFifths ==
    (SpawnCalled /\ frame.spawns[1].slot # 0) =>
        LET c == frame.spawns[1]
        IN  /\ 10 * rippleData[c.slot].scale = 8 * c.initialScale
            /\ c.initialScale = 1200 => rippleData[c.slot].scale = 960
            /\ c.initialScale = 400 => rippleData[c.slot].scale = 320

C4_Witness ==
    /\ SpawnCalled
    /\ frame.spawns[1].slot # 0
    /\ frame.spawns[1].initialScale = 400
    /\ rippleData[frame.spawns[1].slot].scale = 320


----------------------------------------------------------------------------
(* Claims about ripple aging, on the flight *)

\* the last call ran the ripple update
Updated == frame.op = "useFrame" \/ frame.op = "updateRipples"

\* C5: one ripple update with the clamped delta dt takes life - dt and
\* scale + 25 dt on every active entry, retires an entry whose life is then
\* <= 0 with scale 0, and leaves the inactive entries as they were
C5_AgingStep ==
    Updated =>
        \A i \in DOMAIN rippleData :
            LET b == frame.poolAtUpdate[i]
                a == rippleData[i]
            IN  IF b.active
                THEN /\ a.life = b.life - frame.dt
                     /\ a.pos = b.pos /\ a.maxLife = b.maxLife
                     /\ IF a.life <= 0
                        THEN ~a.active /\ a.scale = 0
                        ELSE a.active /\ a.scale = b.scale + 25 * frame.dt
                ELSE a = b

C5_Witness ==
    /\ frame.op = "useFrame"
    /\ \E i, j \in DOMAIN rippleData :
          /\ frame.poolAtUpdate[i].active /\ ~rippleData[i].active
          /\ rippleData[i].life < 0 /\ rippleData[i].scale = 0
          /\ rippleData[j].active /\ rippleData[j].scale > 25 * frame.dt

\* slot i was activated by a spawnRipple call of the last call
SpawnedInFrame(i) == \E k \in DOMAIN frame.spawns : frame.spawns[k].slot = i

\* C6: under a constant dt >= 0 an entry's life never increases from one tick
\* to the next while it stays active, the entry is retired in the first tick
\* that leaves its life <= 0, and an inactive entry becomes active only by a
\* spawnRipple call
C6_LifeMonotone ==
    frame.op = "useFrame" =>
        \A i \in DOMAIN rippleData :
            LET b == frame.poolBefore[i]
                a == rippleData[i]
            IN  /\ (b.active /\ a.active) => (a.life <= b.life /\ ~SpawnedInFrame(i))
                /\ a.active => a.life > 0
                /\ (b.active /\ ~a.active) => (b.life > 0 /\ a.life <= 0)
                /\ (~b.active /\ a.active) => SpawnedInFrame(i)
                /\ (~b.active /\ ~SpawnedInFrame(i)) => a = b

C6_Witness ==
    /\ frame.op = "useFrame"
    /\ \E i, j \in DOMAIN rippleData :
          /\ frame.poolBefore[i].active /\ ~rippleData[i].active
          /\ frame.poolBefore[j].active /\ rippleData[j].active
          /\ rippleData[j].life < frame.poolBefore[j].life


----------------------------------------------------------------------------
(* Claims about the flight controller *)

\* the spawnRipple calls of the last call that the DIVE_LAKE sites made
EntrySplashes == SelectSeq(frame.spawns, LAMBDA c : c.site \in {"trigger", "exit"})

\* C7: any two DIVE_LAKE-triggered spawnRipple calls are more than 2.0 clock
\* seconds apart, so splash conditions that hold twice within 2.0 s, the two
\* trigger sites of one tick included, activate one ripple only
C7_SplashCooldown ==
    /\ \A i, j \in DOMAIN splashTimes :
          i < j => splashTimes[j] - splashTimes[i] > 2000
    /\ Len(EntrySplashes) <= 1

C7_Witness ==
    /\ frame.op = "useFrame"
    /\ frame.currentState = "DIVE_LAKE" /\ state = "SKIM"
    /\ Len(frame.spawns) = 1 /\ frame.spawns[1].site = "trigger"
    /\ Len(splashTimes) = 2
    /\ lastSplashTime = frame.time

\* the edges of the behaviour cycle
Edges ==
    { << "CINEMATIC_ENTRY", "DIVE_BOMB" >>, << "APPROACH_LAKE", "DIVE_LAKE" >>,
      << "DIVE_LAKE", "SKIM" >>, << "SKIM", "CLIMB_MOUNTAIN" >>,
      << "CLIMB_MOUNTAIN", "DIVE_BOMB" >>, << "DIVE_BOMB", "PULL_UP" >>,
      << "PULL_UP", "APPROACH_LAKE" >> }

\* C8: every change of the behaviour state follows one of the seven edges of
\* the cycle
C8_TransitionsFollowCycle ==
    [][state' # state => << state, state' >> \in Edges]_vars

C8_Witness ==
    /\ visits["DIVE_BOMB"] >= 2
    /\ \A s \in BirdStates : visits[s] >= 1
    /\ frame.currentState = "PULL_UP" /\ state = "APPROACH_LAKE"

LoopStates == BirdStates \ {"CINEMATIC_ENTRY"}

\* every state has been visited and every state of the loop has been entered
\* at least twice
AllRevisited == \A s \in LoopStates : visits[s] >= 2

C10_NeverBelowSafe ==
    (frame.op = "useFrame" /\ delta <= MaxDt)
        => position.y >= frame.safeAltitude

\* C10 amended: at the end of a tick with dt = 0.1 the altitude is not below
\* the safe altitude of that tick; with a smaller dt the altitude may end
\* below it, by at most (1 - 10 dt) times the shortfall the integration left
C10_ShortfallShrinks ==
    frame.op = "useFrame" =>
        LET s == frame.safeAltitude
            y0 == frame.yIntegrated
            y1 == position.y
        IN  /\ frame.dt = MaxDt => y1 >= s
            /\ y0 >= s => y1 = y0
            /\ y0 < s => /\ y1 <= s
                         /\ (s - y1) * 100 <= (s - y0) * (100 - frame.dt) + 100

C10_Witness ==
    /\ frame.op = "useFrame"
    /\ frame.dt = MaxDt
    /\ frame.yIntegrated < frame.safeAltitude - 100
    /\ position.y = frame.safeAltitude

----------------------------------------------------------------------------
(* Claims about the order of the steps of one call *)

\* the last call was a useFrame call
Framed == frame.op = "useFrame"

\* the entries of frame.spawns that activated a pool entry
Activated == { k \in DOMAIN frame.spawns : frame.spawns[k].slot # 0 }

\* the position the avoidance of the last call worked on differs from the
\* position the call started with
Moved == frame.integrated.x # frame.startPos.x \/ frame.integrated.z # frame.startPos.z

----------------------------------------------------------------------------
(* Claims about the splash sites *)

\* the spawnRipple calls of the last call made with the entry scale
EntryScaled == SelectSeq(frame.spawns, LAMBDA c : c.initialScale = 1200)

\* the horizontal distance (centi) from the position the last call started
\* with to the lake entry point (-180, 70)
StartDistToEntry == Len2(frame.startPos.x - (-18000), frame.startPos.z - 7000)

\* the position the last call started with leaves DIVE_LAKE: at or below
\* -1.5, or within 20 of the dive target (-180, -3, 70)
StartLeavesDive ==
    \/ frame.startPos.y <= -150
    \/ Len3(frame.startPos.x - (-18000), frame.startPos.y - (-300),
            frame.startPos.z - 7000) < 2000

\* the gate of the RIPPLE TRIGGER block on the position the last call
\* started with
StartInGate == StartDistToEntry < 2500 /\ frame.startPos.y < -150

\* C12 as stated: an entry-scale ripple is spawned only in DIVE_LAKE, within
\* 25 of the lake entry point, below -1.5 and more than 2.0 s after the last
\* splash
C12_EntrySplashGated ==
    (Framed /\ Len(EntryScaled) > 0) =>
        /\ frame.currentState = "DIVE_LAKE"
        /\ StartDistToEntry < 2500
        /\ frame.startPos.y < -150
        /\ frame.time - frame.lastSplashBefore > 2000

\* C12 amended: an entry-scale ripple is spawned in a tick only if the tick
\* starts in DIVE_LAKE more than 2.0 s after the last splash and either the
\* gate holds (within 25 of the entry point and below -1.5: the trigger
\* site) or the tick leaves DIVE_LAKE (at or below -1.5, or within 20 of the
\* dive target: the exit site); the trigger site never fires outside the
\* gate, the exit site fires whatever the distance and the altitude, and
\* under these conditions exactly one spawn is made
C12_EntrySplashSites ==
    Framed =>
        /\ Len(EntryScaled) > 0 =>
              /\ frame.currentState = "DIVE_LAKE"
              /\ frame.time - frame.lastSplashBefore > 2000
              /\ Len(EntryScaled) = 1
              /\ EntryScaled[1].site \in {"trigger", "exit"}
              /\ EntryScaled[1].site = "trigger" => StartInGate
              /\ EntryScaled[1].site = "exit" =>
                     (StartLeavesDive /\ ~StartInGate /\ state = "SKIM")
        /\ (/\ frame.currentState = "DIVE_LAKE"
            /\ frame.time - frame.lastSplashBefore > 2000
            /\ (StartInGate \/ StartLeavesDive)) => Len(EntryScaled) = 1

C12_Witness ==
    /\ Framed
    /\ Len(EntryScaled) = 1
    /\ EntryScaled[1].site = "exit"
    /\ frame.startPos.y <= -150
    /\ StartDistToEntry >= 2500

\* the spawnRipple calls of the last call that the SKIM branch made
SkimSplashes == SelectSeq(frame.spawns, LAMBDA c : c.site = "skim")

\* C13: a tick that starts in SKIM calls spawnRipple with the skim scale
\* (0.4) at the position the tick starts with exactly when its Math.random()
\* draw exceeds 0.85, whatever the distance to the entry point and the time
\* since the last splash, and leaves lastSplashTime as it was; a tick that
\* starts in another state makes no such call
C13_SkimSplashUngated ==
    Framed =>
        /\ frame.currentState = "SKIM" =>
              /\ Len(SkimSplashes) = (IF frame.draw THEN 1 ELSE 0)
              /\ frame.spawns = SkimSplashes
              /\ lastSplashTime = frame.lastSplashBefore
              /\ \A k \in DOMAIN SkimSplashes :
                     /\ SkimSplashes[k].initialScale = 400
                     /\ SkimSplashes[k].x = frame.startPos.x
                     /\ SkimSplashes[k].z = frame.startPos.z
        /\ frame.currentState # "SKIM" =>
              (Len(SkimSplashes) = 0 /\ ~frame.draw)

\* a skim splash made well within the cooldown and far from the entry point
C13_Witness ==
    /\ Framed
    /\ frame.currentState = "SKIM"
    /\ Len(SkimSplashes) = 1 /\ SkimSplashes[1].slot # 0
    /\ frame.time - frame.lastSplashBefore <= 2000
    /\ frame.lastSplashBefore > 0
    /\ StartDistToEntry >= 2500
    /\ lastSplashTime = frame.lastSplashBefore

----------------------------------------------------------------------------
(* Claims about steering, integration and avoidance *)

\* the squared length of a vector (centi squared)
\* |v| <= speed, with 0.1 units of slack for the rounding of the fixed-point
\* square root and divisions
WithinSpeed(v, speed) == LengthSq(v) <= (speed + 10) * (speed + 10)

\* C14: after the steering step of a tick the speed does not exceed the
\* desired speed of the state the tick started in, the velocity a tick
\* leaves is no faster than that, and the speed never exceeds 100
C14_SpeedClamped ==
    /\ WithinSpeed(velocity, 10000)
    /\ Framed =>
          /\ frame.desiredSpeed \in {4000, 6000, 7000, 9000, 10000}
          /\ WithinSpeed(frame.steered, frame.desiredSpeed)
          /\ WithinSpeed(velocity, frame.desiredSpeed)

\* the clamp acted: the tick starts faster than SKIM allows and steering
\* leaves the speed at 70
C14_Witness ==
    /\ Framed
    /\ frame.currentState = "SKIM"
    /\ ~WithinSpeed(frame.startVel, 7500)
    /\ WithinSpeed(frame.steered, 7000)
    /\ ~WithinSpeed(frame.steered, 6950)

\* the displacement of the integration step of the last call
Displacement ==
    Vec(frame.integrated.x - frame.startPos.x,
        frame.integrated.y - frame.startPos.y,
        frame.integrated.z - frame.startPos.z)

\* C15: the dt of a tick is min(host delta, 0.1); the integration step moves
\* the actor by at most desiredSpeed * dt, so by at most 10 units (0.03 units
\* of slack for the fixed-point rounding), and no ripple's life decreases by
\* more than 0.1 in a tick
C15_DeltaClamped ==
    Framed =>
        /\ frame.dt = (IF delta < 100 THEN delta ELSE 100)
        /\ frame.time = clock
        /\ LET reach == (frame.desiredSpeed * frame.dt) \div 1000 + 3
           IN  /\ LengthSq(Displacement) <= reach * reach
               /\ reach <= 1003
        /\ \A i \in DOMAIN rippleData :
               frame.poolBefore[i].active =>
                   /\ frame.poolBefore[i].life - rippleData[i].life = frame.dt
                   /\ frame.poolBefore[i].life - rippleData[i].life <= 100

\* a stalled frame (0.25 s) that moved the actor and aged a ripple by 0.1
C15_Witness ==
    /\ Framed
    /\ delta = 250 /\ frame.dt = 100
    /\ LengthSq(Displacement) > 500 * 500
    /\ \E i \in DOMAIN rippleData :
          /\ frame.poolBefore[i].active
          /\ frame.poolBefore[i].life - rippleData[i].life = 100

\* C16: the safe altitude of a tick is -2.5 over terrain below -2.0 in SKIM
\* or DIVE_LAKE, 0.0 over terrain below -2.0 in any other state, the
\* terrain height + 5.0 over terrain at or above -2.0 in SKIM, and the
\* terrain height + 2.0 otherwise; the terrain height is taken at the
\* integrated horizontal position and the state is the one the tick starts in
C16_SafeAltitudeTable ==
    Framed =>
        LET h == frame.terrainHeight
            cs == frame.currentState
        IN  /\ h = getHeight(frame.integrated.x, frame.integrated.z)
            /\ (h < -200 /\ cs \in {"SKIM", "DIVE_LAKE"})
                  => frame.safeAltitude = -250
            /\ (h < -200 /\ cs \notin {"SKIM", "DIVE_LAKE"})
                  => frame.safeAltitude = 0
            /\ (h >= -200 /\ cs = "SKIM") => frame.safeAltitude = h + 500
            /\ (h >= -200 /\ cs # "SKIM") => frame.safeAltitude = h + 200

\* DIVE_LAKE over the lake bed: the safe altitude is half a unit under water
C16_Witness ==
    /\ Framed
    /\ frame.currentState = "DIVE_LAKE"
    /\ frame.terrainHeight < -200
    /\ frame.safeAltitude = -250
    /\ frame.integrated.y < -250

\* C17: in the avoidance step an altitude y below the safe altitude s moves
\* to y' with y <= y' <= s, and a negative vertical velocity is halved while
\* a non-negative one is kept; with y >= s the step changes neither; the
\* step never changes the horizontal position or velocity
C17_AvoidanceStep ==
    Framed =>
        LET y0 == frame.integrated.y
            s == frame.safeAltitude
            v0 == frame.steered
        IN  /\ position.x = frame.integrated.x /\ position.z = frame.integrated.z
            /\ velocity.x = v0.x /\ velocity.z = v0.z
            /\ 10 * frame.dt <= 1000
            /\ y0 < s =>
                  /\ y0 <= position.y /\ position.y <= s
                  /\ v0.y < 0 => 2 * velocity.y \in {v0.y - 1, v0.y}
                  /\ v0.y >= 0 => velocity.y = v0.y
            /\ y0 >= s => (position.y = y0 /\ velocity.y = v0.y)

\* a 0.06 s tick that ends strictly between the integrated altitude and the
\* safe altitude, with its downward velocity halved
C17_Witness ==
    /\ Framed
    /\ frame.dt = 60
    /\ frame.integrated.y < position.y
    /\ position.y < frame.safeAltitude
    /\ frame.steered.y < -100
    /\ 2 * velocity.y \in {frame.steered.y - 1, frame.steered.y}

----------------------------------------------------------------------------
(* Claims about reset *)

\* the controller is as a newly mounted component has it
Fresh ==
    /\ state = "CINEMATIC_ENTRY"
    /\ position = Vec(-20000, 10000, 10000)
    /\ velocity = Vec(0, 0, 0)
    /\ lastSplashTime = 0
    /\ DOMAIN rippleData = 1..5
    /\ \A i \in DOMAIN rippleData : ~rippleData[i].active

\* C18: resetKey changes exactly in the steps that toggle the camera mode
\* from FOLLOW to FREE, it then grows by one, and the step leaves a fresh
\* controller whatever the state before it
C18_ResetIsFresh ==
    [][/\ (resetKey' # resetKey)
            <=> (cameraMode = "FOLLOW" /\ cameraMode' = "FREE")
       /\ (resetKey' # resetKey) => (resetKey' = resetKey + 1 /\ Fresh')]_vars

\* a reset that discarded a SKIM flight with an active ripple and a recorded
\* splash
C18_Witness ==
    /\ frame.op = "remount"
    /\ resetKey = 1 /\ cameraMode = "FREE"
    /\ ActiveCount(frame.poolBefore) > 0
    /\ Fresh
    /\ ticks > 0

----------------------------------------------------------------------------
(* Claims about the height field *)

\* the last step was a getHeight call
Probed == probe.op = "getHeight"

\* the height at the probed point before the final clamp
ProbedRaw ==
    BaseHeight(probe.x, probe.z) + MountainTerm(probe.x, probe.z)
        - LakeTerm(probe.x, probe.z)

\* C19: getHeight(x, z) >= -12 at every point
C19_HeightFloor == Probed => probe.y >= -1200

\* the lake centre, where the carving alone would reach below -12
C19_Witness ==
    /\ Probed
    /\ probe.x = -20000 /\ probe.z = 8000
    /\ ProbedRaw < -1200
    /\ probe.y = -1200

\* the probed point is outside the lake's influence: dist >= 1
OutsideLake == LakeDist(probe.x, probe.z) >= 10000

\* the probed point is outside the mountain's influence
OutsideMountain == MountainDist(probe.x, probe.z) >= mountainRadius

\* C21: outside the lake's influence getHeight is above the water plane
\* -2.0, and outside both the lake's and the mountain's influence it lies in
\* the base range [2, 22]
C21_DryOutsideLake ==
    Probed =>
        /\ OutsideLake => probe.y > -200
        /\ (OutsideLake /\ OutsideMountain) => (200 <= probe.y /\ probe.y <= 2200)

\* a low point of the rolling hills, outside both features
C21_Witness ==
    /\ Probed
    /\ OutsideLake /\ OutsideMountain
    /\ probe.y < 500
    /\ probe.y >= 200

\* C22: at a point whose warped distance to the mountain centre is at least
\* 160 and whose distorted lake distance is at least 1, such as (500, 500),
\* neither the dome nor the crater branch is taken and getHeight returns the
\* base rolling-hill value
C22_BaseOutsideFeatures ==
    (Probed /\ OutsideLake /\ OutsideMountain) =>
        probe.y = BaseHeight(probe.x, probe.z)

\* the point (500, 500) is probed, lies outside both features and gets the
\* base value
C22_Witness ==
    /\ Probed
    /\ probe.x = 50000 /\ probe.z = 50000
    /\ OutsideLake /\ OutsideMountain
    /\ probe.y = BaseHeight(50000, 50000)

\* the probed point is the lake centre coordinate (-200, 80)
AtLakeCentre == probe.x = lakeCenterX /\ probe.z = lakeCenterZ

\* C23: at the lake centre coordinate (-200, 80) getHeight is below the water
\* plane -2.0
C23_LakeCentreUnderWater ==
    (Probed /\ AtLakeCentre) => probe.y < waterLevel

\* the lake centre is probed: it is inside the lake's influence, the crater
\* takes it below the floor and the clamp returns -12
C23_Witness ==
    /\ Probed /\ AtLakeCentre
    /\ ~OutsideLake
    /\ ProbedRaw < heightFloor
    /\ probe.y = heightFloor

\* the probed point is the mountain centre coordinate (250, -120)
AtMountainCentre == probe.x = mountainCenterX /\ probe.z = mountainCenterZ

\* the top of the base range, 22
BaseTop == 6 * 150 + 1200 + 100

\* C24: at the mountain centre coordinate (250, -120) the dome branch is
\* taken, and the result is above the base value at that point and above the
\* top of the base range, 22
C24_MountainCentreRaised ==
    (Probed /\ AtMountainCentre) =>
        /\ ~OutsideMountain
        /\ probe.y > BaseHeight(probe.x, probe.z)
        /\ probe.y > BaseTop

\* the mountain centre is probed and the dome term there is more than 22 - 2,
\* the width of the base range
C24_Witness ==
    /\ Probed /\ AtMountainCentre
    /\ MountainTerm(probe.x, probe.z) > BaseTop - 200
    /\ probe.y = BaseHeight(probe.x, probe.z) + MountainTerm(probe.x, probe.z)

----------------------------------------------------------------------------
(* Claims about the rendering of ripples and of the actor *)

\* the fields of a pool entry
EntryFields == {"pos", "scale", "life", "maxLife", "active"}

\* C25: the brightness used to render an active ripple is
\* max(0, life / maxLife) * 0.1 of the life the tick left it with; a pool
\* entry has no field for it; for every entry still active at the end of a
\* tick it lies in (0, 0.1]
C25_OpacityFromLife ==
    Framed =>
        \A i \in DOMAIN rippleData :
            /\ DOMAIN rippleData[i] = EntryFields
            /\ rippleData[i].active =>
                  /\ frame.colors[i] =
                        Max(0, (rippleData[i].life * 10000)
                                  \div rippleData[i].maxLife) * 100
                  /\ frame.colors[i] > 0
                  /\ frame.colors[i] <= 1000000

\* a ripple near the end of its life is rendered at less than a tenth of the
\* full brightness while a younger one is rendered brighter
C25_Witness ==
    /\ Framed
    /\ \E i, j \in DOMAIN rippleData :
          /\ rippleData[i].active /\ rippleData[j].active
          /\ rippleData[i].life < 200
          /\ frame.colors[i] > 0 /\ frame.colors[i] < 100000
          /\ frame.colors[j] > frame.colors[i]

Dot(a, b) == a.x * b.x + a.y * b.y + a.z * b.z

\* the directions a and b are the same
SameDirection(a, b) == Cross(a, b) = Vec(0, 0, 0) /\ Dot(a, b) > 0

\* the tick ends with a squared speed of at most 0.1
NearZeroVelocity == Framed /\ ~FastEnoughToBank(velocity)

\* C26 as stated: with a squared speed of at most 0.1 the bank angle is 0 and
\* the actor faces as it did after the previous tick
C26_OrientationFallsBack ==
    NearZeroVelocity =>
        /\ frame.bankAngle = 0
        /\ SameDirection(frame.facing, frame.facingBefore)

\* C26: with a squared speed of at most 0.1 the bank angle is 0, and the
\* actor is still turned by lookAt: it faces along the velocity when that is
\* not zero and along +z when it is zero
C26_BankSkippedLookAtKept ==
    NearZeroVelocity =>
        /\ frame.bankAngle = 0
        /\ velocity # Vec(0, 0, 0) => SameDirection(frame.facing, velocity)
        /\ velocity = Vec(0, 0, 0) => frame.facing = DefaultFacing

\* a tick of one millisecond from rest: the velocity is not zero, its square
\* is at most 0.1, and the actor has turned away from where it faced
C26_Witness ==
    /\ NearZeroVelocity
    /\ frame.startVel = Vec(0, 0, 0)
    /\ velocity # Vec(0, 0, 0)
    /\ frame.bankAngle = 0
    /\ ~SameDirection(frame.facing, frame.facingBefore)

----------------------------------------------------------------------------
(* Claims about the exit tests of SKIM and PULL_UP *)

\* altitudes an actor over the same ground point is moved to
Altitudes == {-500, -150, 0, 5000, 25000}

\* the tick started in the state s
StartedIn(s) == Framed /\ frame.currentState = s

\* C27: a tick that starts in SKIM switches to CLIMB_MOUNTAIN exactly when
\* the horizontal distance from its start to the far-shore point (-125, 50)
\* is below 20, and the same start moved to any other altitude decides the
\* same
C27_SkimExitIgnoresAltitude ==
    StartedIn("SKIM") =>
        /\ (state = "CLIMB_MOUNTAIN") <=>
              (Len2(frame.startPos.x + 12500, frame.startPos.z - 5000) < 2000)
        /\ state \in {"SKIM", "CLIMB_MOUNTAIN"}
        /\ \A y \in Altitudes :
              NextState("SKIM", [frame.startPos EXCEPT !.y = y],
                        StateTarget("SKIM", frame.time)) = state

\* a tick starts in SKIM 5 from the far-shore point on the ground and 50
\* above the water, more than 20 from the target in space, and switches
C27_Witness ==
    /\ StartedIn("SKIM")
    /\ frame.startPos.y >= 5000
    /\ DistanceTo(frame.startPos, StateTarget("SKIM", frame.time)) >= 2000
    /\ state = "CLIMB_MOUNTAIN"

\* C28: a tick that starts in PULL_UP switches to APPROACH_LAKE exactly when
\* the altitude at its start is above 200, whatever the distance to the
\* PULL_UP target; at 200 or below the state stays PULL_UP
C28_PullUpExitByAltitude ==
    StartedIn("PULL_UP") =>
        /\ (state = "APPROACH_LAKE") <=> (frame.startPos.y > 20000)
        /\ frame.startPos.y <= 20000 => state = "PULL_UP"

\* a tick starts in PULL_UP at 210 and switches; its target is 250 up
C28_Witness ==
    /\ StartedIn("PULL_UP")
    /\ frame.startPos.y > 20000
    /\ frame.startPos.y < target.y
    /\ state = "APPROACH_LAKE"

----------------------------------------------------------------------------
(* Claims about the tick as a whole *)

\* C29: a tick changes the behaviour state by at most one edge of the cycle,
\* and its steering target, desired speed, turn rate and avoidance rule are
\* those of the state it started in, also when it switches; the state a tick
\* leaves is the state the next tick starts in and takes its rules from
C29_OneTransitionStartStateRules ==
    [][frame'.op = "useFrame" =>
          /\ frame'.currentState = state
          /\ state' = state \/ << state, state' >> \in Edges
          /\ target' = StateTarget(state, frame'.time)
          /\ frame'.desiredSpeed = DesiredSpeed(state)
          /\ frame'.turnSpeed = TurnSpeed(state)
          /\ frame'.safeAltitude = SafeAltitude(state, frame'.terrainHeight)]_vars

\* a tick switches from DIVE_LAKE to SKIM: it steered at the speed and turn
\* rate of DIVE_LAKE toward the DIVE_LAKE target, which are not those of SKIM
C29_Witness ==
    /\ StartedIn("DIVE_LAKE")
    /\ state = "SKIM"
    /\ frame.desiredSpeed = 9000 /\ DesiredSpeed(state) = 7000
    /\ frame.turnSpeed = 3 /\ TurnSpeed(state) = 2
    /\ target = Vec(-18000, -300, 7000)
    /\ target # StateTarget(state, frame.time)

\* the pool entries the spawnRipple calls of the last call activated
ActivatedEntries ==
    { i \in DOMAIN frame.poolBefore :
        ~frame.poolBefore[i].active /\ frame.poolAtUpdate[i].active }

\* the RIPPLE TRIGGER block of the last call made a spawnRipple call
TriggerFired == \E k \in DOMAIN frame.spawns : frame.spawns[k].site = "trigger"

\* the DIVE_LAKE branch of the last call made a spawnRipple call
ExitFired == \E k \in DOMAIN frame.spawns : frame.spawns[k].site = "exit"

\* C30: a tick activates at most one pool entry; an entry-scale ripple is
\* made only by a tick that starts in DIVE_LAKE and leaves it, so a visit to
\* DIVE_LAKE makes at most one; when the trigger before the state machine
\* fires, the tick leaves DIVE_LAKE, lastSplashTime is the tick's time and the
\* exit site makes no call
C30_OneActivationPerTick ==
    Framed =>
        /\ Cardinality(ActivatedEntries) <= 1
        /\ Len(EntryScaled) <= 1
        /\ Len(EntryScaled) > 0 =>
              frame.currentState = "DIVE_LAKE" /\ state = "SKIM"
        /\ TriggerFired =>
              /\ frame.currentState = "DIVE_LAKE" /\ state = "SKIM"
              /\ lastSplashTime = frame.time
              /\ ~ExitFired

\* the trigger fires after a cooldown that was over: the tick leaves
\* DIVE_LAKE and activates one entry, the exit site stays silent
C30_Witness ==
    /\ Framed
    /\ TriggerFired
    /\ frame.time - frame.lastSplashBefore > 2000
    /\ state = "SKIM"
    /\ Cardinality(ActivatedEntries) = 1
    /\ ~ExitFired

----------------------------------------------------------------------------
(* Claims about the effects of a tick on the pool and the splash stamp *)

\* the states whose branches make no spawnRipple call
DryStates ==
    {"CINEMATIC_ENTRY", "APPROACH_LAKE", "CLIMB_MOUNTAIN", "DIVE_BOMB",
     "PULL_UP"}

\* C31: a tick that starts in CINEMATIC_ENTRY, APPROACH_LAKE, CLIMB_MOUNTAIN,
\* DIVE_BOMB or PULL_UP activates no pool entry, makes no spawnRipple call
\* and leaves lastSplashTime as it was; a tick that makes a spawnRipple call
\* starts in DIVE_LAKE or SKIM
C31_DryStatesSpawnNothing ==
    Framed =>
        /\ frame.currentState \in DryStates =>
              /\ ActivatedEntries = {}
              /\ frame.spawns = << >>
              /\ lastSplashTime = frame.lastSplashBefore
        /\ frame.spawns # << >> => frame.currentState \in {"DIVE_LAKE", "SKIM"}

\* a tick starts in PULL_UP at the lake entry point, under -1.5, with the
\* cooldown over: every gate of the trigger but the state holds, and nothing
\* is spawned
C31_Witness ==
    /\ StartedIn("PULL_UP")
    /\ StartDistToEntry < 2500
    /\ frame.startPos.y < -150
    /\ frame.time - frame.lastSplashBefore > 2000
    /\ frame.spawns = << >>
    /\ ActivatedEntries = {}
    /\ lastSplashTime = frame.lastSplashBefore

\* position, velocity and behaviour state after one call of the callback, from
\* the state, position and velocity it starts with, the clock time and dt:
\* the state machine, the steering, the integration and the terrain collision
\* in the order of the callback, with no draw and no pool among the inputs
FlightAfter(cs, p, v, time, dt) ==
    LET tgt == StateTarget(cs, time)
        vel == Steer(v, p, tgt, DesiredSpeed(cs), TurnSpeed(cs), dt)
        pos == Integrate(p, vel, dt)
        safe == SafeAltitude(cs, getHeight(pos.x, pos.z))
    IN  [state |-> NextState(cs, p, tgt),
         velocity |-> [vel EXCEPT !.y = AvoidVy(pos.y, vel.y, safe)],
         position |-> [pos EXCEPT !.y = AvoidY(pos.y, safe, dt)]]

\* C32: position, velocity and behaviour state after a tick are determined
\* by the position, velocity and state before it and by the delta and clock
\* of the tick, whatever Math.random gave and whatever the pool and the
\* splash stamp hold; so two runs with the same deltas agree on them after
\* every tick
C32_FlightIgnoresSplashes ==
    [][frame'.op = "useFrame" =>
          [state |-> state', velocity |-> velocity', position |-> position']
              = FlightAfter(state, position, velocity, clock + delta,
                            ClampDt(delta))]_vars

\* a tick in SKIM whose draw exceeded 0.85: it spawned a ripple next to one
\* that was active already, and the actor moved on
C32_Witness ==
    /\ StartedIn("SKIM")
    /\ frame.draw
    /\ Len(SkimSplashes) = 1
    /\ ActiveCount(frame.poolBefore) > 0
    /\ position # frame.startPos
    /\ velocity # Vec(0, 0, 0)

\* C33: an entry activated by a spawnRipple call of a tick is aged by the
\* ripple update of the same tick: at the end of the tick its life is
\* maxLife - dt and its scale is the scale it was spawned with + 25 * dt
C33_SpawnedAgedSameTick ==
    Framed =>
        \A i \in ActivatedEntries :
            /\ frame.poolAtUpdate[i].life = frame.poolAtUpdate[i].maxLife
            /\ rippleData[i].maxLife = frame.poolAtUpdate[i].maxLife
            /\ rippleData[i].life = rippleData[i].maxLife - frame.dt
            /\ rippleData[i].scale = frame.poolAtUpdate[i].scale + 25 * frame.dt
            /\ rippleData[i].active

\* an entry-scale ripple spawned in a tick of 0.1 s ends the tick with life
\* 1.9 and scale 0.96 + 2.5
C33_Witness ==
    /\ Framed
    /\ frame.dt = 100
    /\ \E i \in ActivatedEntries :
          /\ frame.poolAtUpdate[i].scale = 960
          /\ rippleData[i].life = 1900
          /\ rippleData[i].scale = 3460

\* C34: between ticks every active entry has 0 < life <= maxLife = 2.0, every
\* inactive entry has scale 0, and the pool holds exactly 5 entries
C34_PoolShape ==
    /\ DOMAIN rippleData = 1..5
    /\ \A i \in DOMAIN rippleData :
          /\ rippleData[i].active =>
                /\ 0 < rippleData[i].life
                /\ rippleData[i].life <= rippleData[i].maxLife
                /\ rippleData[i].maxLife = 2000
          /\ ~rippleData[i].active => rippleData[i].scale = 0

\* a tick retired an entry that had been in use, while another is still
\* fading
C34_Witness ==
    /\ Framed
    /\ \E i, j \in DOMAIN rippleData :
          /\ frame.poolAtUpdate[i].active
          /\ frame.poolAtUpdate[i].scale > 0
          /\ ~rippleData[i].active
          /\ rippleData[i].scale = 0
          /\ rippleData[j].active
          /\ rippleData[j].life < rippleData[j].maxLife

----------------------------------------------------------------------------
(* Claims about the retirement of ripples *)

\* the entry has been through at least one ripple update
Aged == aging.op = "aged"

----------------------------------------------------------------------------
(* Claims about the splash stamp *)

\* a DIVE_LAKE site of the last call called spawnRipple on a full pool, and
\* the request was dropped
EntrySplashDropped ==
    /\ ActiveCount(frame.poolBefore) = MAX_COUNT
    /\ \E k \in DOMAIN EntrySplashes : EntrySplashes[k].slot = 0

\* C36: a DIVE_LAKE splash site whose cooldown test passes sets
\* lastSplashTime to the clock time of the tick, also when the pool is full
\* and the request is dropped; lastSplashTime never decreases and never
\* exceeds the clock time
C36_StampOnAttempt ==
    /\ lastSplashTime <= clock
    /\ Framed =>
          /\ EntrySplashes # << >> => lastSplashTime = frame.time
          /\ EntrySplashDropped => lastSplashTime = frame.time
          /\ lastSplashTime >= frame.lastSplashBefore
          /\ lastSplashTime \in {frame.lastSplashBefore, clock}

\* an entry splash on a full pool after more than 2.0 s: no entry is
\* activated and the stamp is the time of the tick
C36_Witness ==
    /\ StartedIn("DIVE_LAKE")
    /\ EntrySplashDropped
    /\ ActivatedEntries = {}
    /\ frame.time - frame.lastSplashBefore > 2000
    /\ lastSplashTime = frame.time
    /\ lastSplashTime > frame.lastSplashBefore

----------------------------------------------------------------------------
(* Claims about the cinematic entry *)

\* C37: in one session CINEMATIC_ENTRY is entered once, at the start, and
\* never again after it has been left; until the first APPROACH_LAKE the
\* actor has been in DIVE_BOMB and PULL_UP at most once each and in no lake
\* state, and the first APPROACH_LAKE comes after one DIVE_BOMB and one
\* PULL_UP
C37_CinematicEntryOnce ==
    /\ visits["CINEMATIC_ENTRY"] = 1
    /\ visits["APPROACH_LAKE"] = 0 =>
          /\ state \in {"CINEMATIC_ENTRY", "DIVE_BOMB", "PULL_UP"}
          /\ visits["DIVE_BOMB"] <= 1 /\ visits["PULL_UP"] <= 1
          /\ visits["DIVE_LAKE"] = 0 /\ visits["SKIM"] = 0
          /\ visits["CLIMB_MOUNTAIN"] = 0
    /\ (visits["APPROACH_LAKE"] = 1 /\ state = "APPROACH_LAKE") =>
          /\ visits["DIVE_BOMB"] = 1 /\ visits["PULL_UP"] = 1
          /\ visits["DIVE_LAKE"] = 0

\* the actor is in its second lap: it has left PULL_UP for the second time
\* and CINEMATIC_ENTRY has still been entered once
C37_Witness ==
    /\ visits["CINEMATIC_ENTRY"] = 1
    /\ visits["PULL_UP"] = 2
    /\ visits["APPROACH_LAKE"] = 2
    /\ state = "APPROACH_LAKE"

----------------------------------------------------------------------------
(* Claims about the mountain dome *)

\* shape of the dome at the probed point, in 1/10000
ProbedShape == MountainShape(MountainDist(probe.x, probe.z))

\* roughness at the probed point, in centi
ProbedRoughness == MountainRoughness(probe.x, probe.z, ProbedShape)

\* C38: at every point inside the warped mountain radius the roughness is at
\* least -22.5 * shape and the added term shape * 140 + roughness is at least
\* 0, so the height before the lake is carved is at least the base terrain
C38_DomeNeverLowers ==
    (Probed /\ ~OutsideMountain) =>
        /\ ProbedShape >= 0
        /\ ProbedRoughness >= (-2250 * ProbedShape) \div 10000
        /\ (ProbedShape * mountainHeight) \div 100 + ProbedRoughness >= 0
        /\ MountainTerm(probe.x, probe.z) >= 0
        /\ ProbedRaw >= BaseHeight(probe.x, probe.z)

\* a point on the flank of the dome where the roughness is more than 3 below
\* zero and the dome still raises the terrain
C38_Witness ==
    /\ Probed /\ ~OutsideMountain
    /\ ProbedShape < 5000
    /\ ProbedRoughness < -300
    /\ MountainTerm(probe.x, probe.z) > 0
    /\ ProbedRaw > BaseHeight(probe.x, probe.z)

====
